---- MODULE Spec2Model ----
(***************************************************************************)
(* node-tcnet: the layer state tracker (PioneerDJState), the client's      *)
(* broadcast handler (PioneerDJTCClient.receiveBroadcast), and of           *)
(* src/network.ts the management header codec, the packet classes' read()  *)
(* and write(), and the two dispatch tables.                               *)
(*                                                                         *)
(* JavaScript arrays and Buffers are 0-based; they are modelled as TLA+    *)
(* sequences, so the element at JavaScript index i is the sequence element *)
(* i + 1.                                                                  *)
(***************************************************************************)
EXTENDS Integers, Sequences, FiniteSets, TLC

VARIABLES
    _trackID,   \* PioneerDJState._trackID
    _status,    \* PioneerDJState._status
    op,         \* the tracker operation called last ("none" before any call)
    source,     \* the argument of that call
    ret,        \* what that call returned: [threw, asserted, changed]
    prev,       \* <<op, source>> of the call before that one
    ncalls,     \* number of direct tracker calls so far
    pre,        \* both stored arrays as they were before the last operation
    packet,     \* the broadcast packet receiveBroadcast handled last
    prevPacket, \* the broadcast packet handled before that one
    emitted,    \* the events receiveBroadcast emitted for packet, in order
    nrecv,      \* number of broadcasts received so far
    codec,      \* the class whose read()/write() is exercised ("none": idle)
    value,      \* the field values of the object given to write()
    buffer,     \* the Buffer read() and write() work on, a sequence of bytes
    decoded,    \* the fields read() has assigned, a function from their names
    outcome,    \* of the last read()/write(): [threw, asserted]
    pc,         \* "idle", "new", "written", "read" or "failed"
    tag,        \* the dispatch table and the tag looked up in it
    resolved    \* what the lookup yielded ("pending" before it)

trackerVars == <<_trackID, _status, pre>>

callVars == <<op, source, ret, prev, ncalls>>

clientVars == <<packet, prevPacket, emitted, nrecv>>

codecVars == <<codec, value, buffer, decoded, outcome, pc>>

dispatchVars == <<tag, resolved>>

vars == <<trackerVars, callVars, clientVars, codecVars, dispatchVars>>

-----------------------------------------------------------------------------
(* Bounds and input sets                                                   *)

NumLayers == 8

\* layers 1..VaryLayers of an input array take values freely; the remaining
\* layers all carry one further freely chosen value
VaryLayers == 1

\* direct tracker calls in one behaviour
MaxCalls == 3

\* broadcasts received in one behaviour
MaxBroadcasts == 2

TrackVals == {-1, 5}

\* TCNetLayerStatus.IDLE, TCNetLayerStatus.PLAYING
StatusVals == {0, 3}

ScenarioTrackIDs == <<5, 5, -1, -1, -1, -1, -1, -1>>

ScenarioStatus == <<3, 3, 0, 0, 0, 0, 0, 0>>

LayerArrays(vals) ==
    { [i \in 1..NumLayers |-> IF i <= VaryLayers THEN p[i] ELSE f] :
        p \in [1..VaryLayers -> vals], f \in vals }

\* 8-element arguments of updateTrackIDs and updateStatus
TrackArrays == LayerArrays(TrackVals) \cup {ScenarioTrackIDs}

StatusArrays == LayerArrays(StatusVals) \cup {ScenarioStatus}

\* the trackID array of a decoded TCNetStatusPacket: readUInt32LE values
PacketTrackVals == {0, 5}

PacketTrackArrays ==
    LayerArrays(PacketTrackVals) \cup { <<5, 5, 0, 0, 0, 0, 0, 0>> }

\* an array cut or extended (by repeating its last element) to n elements
Resize(arr, n) ==
    [i \in 1..n |-> IF i <= Len(arr) THEN arr[i] ELSE arr[Len(arr)]]

\* one element short, exact, one element long
SourceLens == {NumLayers - 1, NumLayers, NumLayers + 1}

AnyLenArrays(arrays) == { Resize(a, n) : a \in arrays, n \in SourceLens }

-----------------------------------------------------------------------------
(* PioneerDJState                                                          *)

FreshField_idle == [i \in 1..NumLayers |-> 0]

\* new Array(8).fill(-1)
FreshField == [i \in 1..NumLayers |-> -1]

\* console.assert(cond): prints a message when cond is false and returns;
\* it never throws.  The value is whether the message was printed.
assert(cond) == ~cond

\* field[i] !== source[i] for a 0-based i; reading past the end of field
\* gives undefined, which differs from every number
Differs(field, i, v) == IF i < Len(field) THEN field[i + 1] # v ELSE TRUE

Store_dropped(field, i, v) == field

\* field[i] = v for a 0-based i <= field.length
Store(field, i, v) ==
    IF i < Len(field) THEN [field EXCEPT ![i + 1] = v] ELSE Append(field, v)

RECURSIVE updateLoop_pushIndex(_, _, _, _)
updateLoop_pushIndex(field, src, i, changedLayers) ==
    IF ~(i < Len(src))
    THEN [field |-> field, changed |-> changedLayers]
    ELSE IF Differs(field, i, src[i + 1])
         THEN updateLoop_pushIndex(Store(field, i, src[i + 1]), src, i + 1,
                                   Append(changedLayers, i))
         ELSE updateLoop_pushIndex(field, src, i + 1, changedLayers)

RECURSIVE updateLoop(_, _, _, _)
updateLoop(field, src, i, changedLayers) ==
    IF ~(i < Len(src))
    THEN [field |-> field, changed |-> changedLayers]
    ELSE IF Differs(field, i, src[i + 1])
         THEN updateLoop(Store(field, i, src[i + 1]), src, i + 1,
                         Append(changedLayers, i + 1))
         ELSE updateLoop(field, src, i + 1, changedLayers)

update_fromOne(field, src) ==
    LET asserted == assert(Len(src) = NumLayers)
        r == updateLoop(field, src, 1, <<>>)
    IN  [field |-> r.field,
         ret |-> [threw |-> FALSE, asserted |-> asserted, changed |-> r.changed]]

\* PioneerDJState.update: the new field and the call's outcome
update(field, src) ==
    LET asserted == assert(Len(src) = NumLayers)
        r == updateLoop(field, src, 0, <<>>)
    IN  [field |-> r.field,
         ret |-> [threw |-> FALSE, asserted |-> asserted, changed |-> r.changed]]

\* state().trackID(idx), state().status(idx)
trackID(idx) == _trackID[idx]

status(idx) == _status[idx]

Stored == [trackID |-> _trackID, status |-> _status]

updateTrackIDs(trackIDs) ==
    /\ ncalls < MaxCalls
    /\ LET r == update(_trackID, trackIDs)
       IN  /\ _trackID' = r.field
           /\ ret' = r.ret
    /\ pre' = Stored
    /\ prev' = <<op, source>>
    /\ op' = "updateTrackIDs"
    /\ source' = trackIDs
    /\ ncalls' = ncalls + 1
    /\ UNCHANGED <<_status, clientVars, codecVars, dispatchVars>>

updateStatus(st) ==
    /\ ncalls < MaxCalls
    /\ LET r == update(_status, st)
       IN  /\ _status' = r.field
           /\ ret' = r.ret
    /\ pre' = Stored
    /\ prev' = <<op, source>>
    /\ op' = "updateStatus"
    /\ source' = st
    /\ ncalls' = ncalls + 1
    /\ UNCHANGED <<_trackID, clientVars, codecVars, dispatchVars>>

NoCall == [threw |-> FALSE, asserted |-> FALSE, changed |-> <<>>]

-----------------------------------------------------------------------------
(* PioneerDJTCClient                                                       *)

\* changed.forEach((el) => this.emit(name, el)): the listeners run inside
\* emit and see, through state(), the tracker as it is at that moment (seen)
EmitEach(name, changed, seen) ==
    [k \in 1..Len(changed) |->
        [name |-> name, layer |-> changed[k], seen |-> seen]]

EmitStatusChange_both(changedTracks, changedStatus, seen) ==
    IF Len(changedTracks) > 0 /\ Len(changedStatus) > 0
    THEN << [name |-> "statuschange", layer |-> 0, seen |-> seen] >>
    ELSE << >>

\* this.emit("statuschange") when either list is non-empty
EmitStatusChange(changedTracks, changedStatus, seen) ==
    IF Len(changedTracks) > 0 \/ Len(changedStatus) > 0
    THEN << [name |-> "statuschange", layer |-> 0, seen |-> seen] >>
    ELSE << >>

\* packet instanceof TCNetStatusPacket
IsStatusPacket(p) == p.kind = "Status"

receiveBroadcast_always(p) ==
    /\ nrecv < MaxBroadcasts
    /\ IF IsStatusPacket(p)
       THEN LET changedTracks == update(_trackID, p.trackID)
                changedStatus == update(_status, p.layerStatus)
                state == [trackID |-> changedTracks.field,
                          status |-> changedStatus.field]
            IN  /\ _trackID' = changedTracks.field
                /\ _status' = changedStatus.field
                /\ emitted' =
                    EmitEach("changedtrack", changedTracks.ret.changed, state)
                    \o EmitEach("changedstatus", changedStatus.ret.changed, state)
                    \o EmitStatusChange(changedTracks.ret.changed,
                                        changedStatus.ret.changed, state)
       ELSE /\ emitted' = << [name |-> "statuschange", layer |-> 0, seen |-> Stored] >>
            /\ UNCHANGED <<_trackID, _status>>
    /\ pre' = Stored
    /\ prevPacket' = packet
    /\ packet' = p
    /\ nrecv' = nrecv + 1
    /\ UNCHANGED <<callVars, codecVars, dispatchVars>>

\* each list emitted as soon as it is computed: the "changedtrack" listeners
\* run before updateStatus
receiveBroadcast_emitEarly(p) ==
    /\ nrecv < MaxBroadcasts
    /\ IF IsStatusPacket(p)
       THEN LET changedTracks == update(_trackID, p.trackID)
                changedStatus == update(_status, p.layerStatus)
                early == [trackID |-> changedTracks.field, status |-> _status]
                state == [trackID |-> changedTracks.field,
                          status |-> changedStatus.field]
            IN  /\ _trackID' = changedTracks.field
                /\ _status' = changedStatus.field
                /\ emitted' =
                    EmitEach("changedtrack", changedTracks.ret.changed, early)
                    \o EmitEach("changedstatus", changedStatus.ret.changed, state)
                    \o EmitStatusChange(changedTracks.ret.changed,
                                        changedStatus.ret.changed, state)
       ELSE /\ emitted' = << >>
            /\ UNCHANGED <<_trackID, _status>>
    /\ pre' = Stored
    /\ prevPacket' = packet
    /\ packet' = p
    /\ nrecv' = nrecv + 1
    /\ UNCHANGED <<callVars, codecVars, dispatchVars>>

\* PioneerDJTCClient.receiveBroadcast, the whole handler: both updates, then
\* the events; state is what state() returns from then on
receiveBroadcast(p) ==
    /\ nrecv < MaxBroadcasts
    /\ IF IsStatusPacket(p)
       THEN LET changedTracks == update(_trackID, p.trackID)
                changedStatus == update(_status, p.layerStatus)
                state == [trackID |-> changedTracks.field,
                          status |-> changedStatus.field]
            IN  /\ _trackID' = changedTracks.field
                /\ _status' = changedStatus.field
                /\ emitted' =
                    EmitEach("changedtrack", changedTracks.ret.changed, state)
                    \o EmitEach("changedstatus", changedStatus.ret.changed, state)
                    \o EmitStatusChange(changedTracks.ret.changed,
                                        changedStatus.ret.changed, state)
       ELSE /\ emitted' = << >>
            /\ UNCHANGED <<_trackID, _status>>
    /\ pre' = Stored
    /\ prevPacket' = packet
    /\ packet' = p
    /\ nrecv' = nrecv + 1
    /\ UNCHANGED <<callVars, codecVars, dispatchVars>>

\* a decoded TCNetStatusPacket: its two 8-element arrays
StatusPackets ==
    { [kind |-> "Status", trackID |-> t, layerStatus |-> s] :
        t \in PacketTrackArrays, s \in StatusArrays }

\* the other packet classes a broadcast can decode to
OtherKinds == {"OptIn", "OptOut", "Request", "ApplicationData", "Time", "Data"}

OtherPackets == { [kind |-> k] : k \in OtherKinds }

NoPacket == [kind |-> "none"]

-----------------------------------------------------------------------------
(* Buffer primitives (Node.js Buffer) and strings                          *)
(* A string is the sequence of its character codes.                        *)

NUL == 0

\* the characters "." does not match in a JavaScript regular expression
\* without the s flag: \n and \r (U+2028 and U+2029 are not ASCII)
LineTerminators == {10, 13}

\* offset .. offset + width - 1 lies inside the buffer; the read and write
\* methods throw ERR_OUT_OF_RANGE (a RangeError) otherwise
InRange(buf, offset, width) == offset >= 0 /\ offset + width <= Len(buf)

readUInt8(buf, offset) == buf[offset + 1]

readUInt16LE(buf, offset) == buf[offset + 1] + 256 * buf[offset + 2]

readUInt32LE(buf, offset) ==
    buf[offset + 1] + 256 * buf[offset + 2] + 65536 * buf[offset + 3]
        + 16777216 * buf[offset + 4]

\* buf.slice(start, end): both ends are clamped to the buffer
slice(buf, start, end) ==
    LET e == IF end > Len(buf) THEN Len(buf) ELSE end
    IN  IF start >= e THEN << >> ELSE SubSeq(buf, start + 1, e)

\* bytes.toString("ascii"): the high bit of each byte is dropped
toAscii(bytes) == [k \in 1..Len(bytes) |-> bytes[k] % 128]

\* str.replace(/\0.*$/g, ""): cuts the string at the first NUL that no line
\* terminator follows ("." does not match one and "$" is the end of input)
replaceNulToEnd(str) ==
    LET cuts == { k \in 1..Len(str) :
                    /\ str[k] = NUL
                    /\ \A j \in (k + 1)..Len(str) : str[j] \notin LineTerminators }
    IN  IF cuts = {} THEN str
        ELSE SubSeq(str, 1, (CHOOSE k \in cuts : \A j \in cuts : k <= j) - 1)

\* str.replace(/\x00/g, ""): every NUL is removed, what follows one is kept
replaceEveryNul(str) == SelectSeq(str, LAMBDA ch : ch # NUL)

\* the ASCII characters trimEnd() removes: tab, line feed, vertical tab, form
\* feed, carriage return, space
WhiteSpace == {9, 10, 11, 12, 13, 32}

\* str.trimEnd()
trimEnd(str) ==
    LET keep == { k \in 1..Len(str) : str[k] \notin WhiteSpace }
    IN  IF keep = {} THEN << >>
        ELSE SubSeq(str, 1, CHOOSE k \in keep : \A j \in keep : j <= k)

\* the division left out: the raw number of hundredths taken as the bpm
divideBy100_raw(n) == [whole |-> n, hundredths |-> 0]

\* n / 100 for a whole number n: the quotient and the remaining hundredths
divideBy100(n) == [whole |-> n \div 100, hundredths |-> n % 100]

\* str.padEnd(width, "\x00")
padEnd(str, width) ==
    IF Len(str) >= width THEN str
    ELSE str \o [k \in 1..(width - Len(str)) |-> NUL]

\* buf.write(str, offset, "ascii"): writes as many characters as fit
writeAscii(buf, str, offset) ==
    [k \in 1..Len(buf) |->
        IF k > offset /\ k <= offset + Len(str) THEN str[k - offset] % 256
        ELSE buf[k]]

\* the bytes writeUIntNLE stores, low byte first
writeBytes(buf, v, offset, width) ==
    [k \in 1..Len(buf) |->
        IF k > offset /\ k <= offset + width
        THEN (v \div (256 ^ (k - offset - 1))) % 256
        ELSE buf[k]]

-----------------------------------------------------------------------------
(* read() and write() bodies as the sequence of their statements           *)

\* this.<f> = this.buffer.readUInt8(at)  (16LE, 32LE likewise)
RU8(f, at) == [k |-> "u8", f |-> f, at |-> at, to |-> at + 1, eq |-> << >>]

RU16(f, at) == [k |-> "u16", f |-> f, at |-> at, to |-> at + 2, eq |-> << >>]

RU32(f, at) == [k |-> "u32", f |-> f, at |-> at, to |-> at + 4, eq |-> << >>]

\* this.<f> = this.buffer.slice(at, to).toString("ascii").replace(/\0.*$/g, "")
RAscii(f, at, to) == [k |-> "ascii", f |-> f, at |-> at, to |-> to, eq |-> << >>]

\* this.<f> = this.buffer.slice(at, to).toString("ascii").replace(/\x00/g, "")
RAsciiStrip(f, at, to) ==
    [k |-> "asciiStrip", f |-> f, at |-> at, to |-> to, eq |-> << >>]

\* ... .replace(/\x00/g, "").trimEnd()
RAsciiTrim(f, at, to) ==
    [k |-> "asciiTrim", f |-> f, at |-> at, to |-> to, eq |-> << >>]

\* this.<f> = this.buffer.readUInt32LE(at) / 100
RU32Div100(f, at) ==
    [k |-> "u32div100", f |-> f, at |-> at, to |-> at + 4, eq |-> << >>]

\* this.<f>[n] = ...: the statement assigns element n of the array
At(step, n) ==
    [k |-> step.k, f |-> step.f, at |-> step.at, to |-> step.to,
     eq |-> step.eq, i |-> n]

\* for (let n = 0; n < 8; n++) { body[n] }: the statements in execution order
ForEachLayer(body) ==
    LET w == Len(body[0])
    IN  [k \in 1..(8 * w) |-> body[(k - 1) \div w][((k - 1) % w) + 1]]

\* assert(this.buffer.readUInt8(at) == eq)
RAssertU8(at, eq) ==
    [k |-> "assertU8", f |-> "", at |-> at, to |-> at + 1, eq |-> <<eq>>]

\* assert(this.buffer.slice(at, to).toString("ascii") == eq)
RAssertAscii(at, to, eq) ==
    [k |-> "assertAscii", f |-> "", at |-> at, to |-> to, eq |-> eq]

NoFields == [x \in {} |-> 0]

SetField(obj, f, v) ==
    [x \in (DOMAIN obj) \cup {f} |-> IF x = f THEN v ELSE obj[x]]

\* this.<f> = v, or this.<f>[i] = v for a statement inside a loop
Assign(obj, step, v) ==
    IF "i" \in DOMAIN step
    THEN SetField(obj, step.f,
                  SetField(IF step.f \in DOMAIN obj THEN obj[step.f] ELSE NoFields,
                           step.i, v))
    ELSE SetField(obj, step.f, v)

Throw(st) == [st EXCEPT !.threw = TRUE]

\* one statement of a read(): st = [obj, threw, asserted]
ReadStep(step, buf, st) ==
    CASE step.k = "u8" ->
            IF InRange(buf, step.at, 1)
            THEN [st EXCEPT !.obj = Assign(@, step, readUInt8(buf, step.at))]
            ELSE Throw(st)
      [] step.k = "u16" ->
            IF InRange(buf, step.at, 2)
            THEN [st EXCEPT !.obj = Assign(@, step, readUInt16LE(buf, step.at))]
            ELSE Throw(st)
      [] step.k = "u32" ->
            IF InRange(buf, step.at, 4)
            THEN [st EXCEPT !.obj = Assign(@, step, readUInt32LE(buf, step.at))]
            ELSE Throw(st)
      [] step.k = "u32div100" ->
            IF InRange(buf, step.at, 4)
            THEN [st EXCEPT !.obj =
                    Assign(@, step, divideBy100(readUInt32LE(buf, step.at)))]
            ELSE Throw(st)
      [] step.k = "ascii" ->
            [st EXCEPT !.obj =
                Assign(@, step,
                       replaceNulToEnd(toAscii(slice(buf, step.at, step.to))))]
      [] step.k = "asciiStrip" ->
            [st EXCEPT !.obj =
                Assign(@, step,
                       replaceEveryNul(toAscii(slice(buf, step.at, step.to))))]
      [] step.k = "asciiTrim" ->
            [st EXCEPT !.obj =
                Assign(@, step,
                       trimEnd(replaceEveryNul(
                           toAscii(slice(buf, step.at, step.to)))))]
      [] step.k = "assertU8" ->
            IF InRange(buf, step.at, 1)
            THEN [st EXCEPT !.asserted =
                    @ \/ assert(readUInt8(buf, step.at) = step.eq[1])]
            ELSE Throw(st)
      [] step.k = "assertAscii" ->
            [st EXCEPT !.asserted =
                @ \/ assert(toAscii(slice(buf, step.at, step.to)) = step.eq)]

\* the statements run in order; an exception ends the method
RECURSIVE RunRead(_, _, _, _)
RunRead(prog, buf, st, n) ==
    IF n > Len(prog) \/ st.threw THEN st
    ELSE RunRead(prog, buf, ReadStep(prog[n], buf, st), n + 1)

read(prog, buf) ==
    RunRead(prog, buf, [obj |-> NoFields, threw |-> FALSE, asserted |-> FALSE], 1)

\* this.buffer.writeUInt8(v, at)  (16LE likewise)
WU8(v, at) == [k |-> "u8", v |-> v, at |-> at, str |-> << >>, cond |-> TRUE]

WU16(v, at) == [k |-> "u16", v |-> v, at |-> at, str |-> << >>, cond |-> TRUE]

WU32(v, at) == [k |-> "u32", v |-> v, at |-> at, str |-> << >>, cond |-> TRUE]

\* this.buffer.write(str, at, "ascii")
WAscii(str, at) == [k |-> "ascii", v |-> 0, at |-> at, str |-> str, cond |-> TRUE]

\* throw new Error("not supported!")
WThrowError == [k |-> "throw", v |-> 0, at |-> 0, str |-> << >>, cond |-> TRUE]

\* assert(cond)
WAssert(cond) == [k |-> "assert", v |-> 0, at |-> 0, str |-> << >>, cond |-> cond]

\* one statement of a write(): st = [buf, threw, asserted]; writeUIntN
\* throws when the value does not fit or the offset is outside the buffer
WriteStep(step, st) ==
    CASE step.k = "u8" ->
            IF step.v \in 0..255 /\ InRange(st.buf, step.at, 1)
            THEN [st EXCEPT !.buf = writeBytes(@, step.v, step.at, 1)]
            ELSE Throw(st)
      [] step.k = "u16" ->
            IF step.v \in 0..65535 /\ InRange(st.buf, step.at, 2)
            THEN [st EXCEPT !.buf = writeBytes(@, step.v, step.at, 2)]
            ELSE Throw(st)
      [] step.k = "u32" ->
            IF step.v \div 65536 \in 0..65535 /\ InRange(st.buf, step.at, 4)
            THEN [st EXCEPT !.buf = writeBytes(@, step.v, step.at, 4)]
            ELSE Throw(st)
      [] step.k = "ascii" ->
            IF step.at >= 0 /\ step.at <= Len(st.buf)
            THEN [st EXCEPT !.buf = writeAscii(@, step.str, step.at)]
            ELSE Throw(st)
      [] step.k = "assert" ->
            [st EXCEPT !.asserted = @ \/ assert(step.cond)]
      [] step.k = "throw" -> Throw(st)

RECURSIVE RunWrite(_, _, _)
RunWrite(prog, st, n) ==
    IF n > Len(prog) \/ st.threw THEN st
    ELSE RunWrite(prog, WriteStep(prog[n], st), n + 1)

write(prog, buf) ==
    RunWrite(prog, [buf |-> buf, threw |-> FALSE, asserted |-> FALSE], 1)

-----------------------------------------------------------------------------
(* TCNetManagementHeader and the encode-capable packets                    *)

MAJOR_VERSION == 3

\* "TCN"
MAGIC_HEADER == <<84, 67, 78>>

\* TCNetManagementHeader.read
HeaderRead ==
    << RU16("nodeId", 0),
       RAssertU8(2, MAJOR_VERSION),
       RU8("minorVersion", 3),
       RAssertAscii(4, 7, MAGIC_HEADER),
       RU8("messageType", 7),
       RAscii("nodeName", 8, 16),
       RU8("seq", 16),
       RU8("nodeType", 17),
       RU16("nodeOptions", 18),
       RU32("timestamp", 20) >>

\* TCNetManagementHeader.write
HeaderWrite(h) ==
    << WAssert(Len(h.nodeName) <= 8),
       WU16(h.nodeId, 0),
       WU8(MAJOR_VERSION, 2),
       WU8(h.minorVersion, 3),
       WAscii(MAGIC_HEADER, 4),
       WU8(h.messageType, 7),
       WAscii(padEnd(h.nodeName, 8), 8),
       WU8(h.seq, 16),
       WU8(h.nodeType, 17),
       WU16(h.nodeOptions, 18),
       WU32(h.timestamp, 20) >>

\* TCNetOptInPacket.read
OptInRead ==
    << RU16("nodeCount", 24),
       RU16("nodeListenerPort", 26),
       RU16("uptime", 28),
       RAscii("vendorName", 32, 48),
       RAscii("appName", 48, 64),
       RU8("majorVersion", 64),
       RU8("minorVersion", 65),
       RU8("bugVersion", 66) >>

\* TCNetOptInPacket.write; the last three statements pass (offset, value)
\* to writeUInt8(value, offset)
OptInWrite(p) ==
    << WAssert(Len(p.vendorName) <= 16),
       WAssert(Len(p.appName) <= 16),
       WU16(p.nodeCount, 24),
       WU16(p.nodeListenerPort, 26),
       WU16(p.uptime, 28),
       WAscii(padEnd(p.vendorName, 16), 32),
       WAscii(padEnd(p.appName, 16), 48),
       WU8(64, p.majorVersion),
       WU8(65, p.minorVersion),
       WU8(66, p.bugVersion) >>

\* TCNetOptOutPacket.read
OptOutRead == << RU16("nodeCount", 24), RU16("nodeListenerPort", 26) >>

\* TCNetOptOutPacket.write
OptOutWrite(p) == << WU16(p.nodeCount, 24), WU16(p.nodeListenerPort, 26) >>

\* TCNetRequestPacket.read
RequestRead == << RU8("dataType", 24), RU8("layer", 25) >>

\* TCNetRequestPacket.write
RequestWrite(p) ==
    << WAssert(0 <= p.dataType /\ p.dataType <= 255),
       WAssert(0 <= p.layer /\ p.layer <= 255),
       WU8(p.dataType, 24),
       WU8(p.layer, 25) >>

\* TCNetApplicationData.read
ApplicationDataRead == << RU8("dataType", 24), RU8("layer", 25) >>

\* TCNetApplicationData.write
ApplicationDataWrite(p) ==
    << WAssert(0 <= p.dataType /\ p.dataType <= 255),
       WAssert(0 <= p.layer /\ p.layer <= 255),
       WU8(p.dataType, 24),
       WU8(p.layer, 25) >>

-----------------------------------------------------------------------------
(* The packets that are only decoded                                       *)

\* TCNetStatusPacket.read
StatusRead ==
    << RU16("nodeCount", 24), RU16("nodeListenerPort", 26) >>
    \o ForEachLayer([n \in 0..7 |-> << At(RU8("layerSource", 34 + n), n) >>])
    \o ForEachLayer([n \in 0..7 |-> << At(RU8("layerStatus", 42 + n), n) >>])
    \o ForEachLayer([n \in 0..7 |-> << At(RU32("trackID", 50 + n * 4), n) >>])
    \o << RU8("smpteMode", 83), RU8("autoMasterMode", 84) >>
    \o ForEachLayer([n \in 0..7 |->
            << At(RAscii("layerName", 172 + n * 16, 172 + (n + 1) * 16), n) >>])

\* TCNetStatusPacket.write
StatusWrite(p) == << WThrowError >>

\* TCNetTimecode.read(buffer, offset) for layerTimecode[n]
TimecodeRead(n, offset) ==
    << At(RU8("layerTimecode.mode", offset + 0), n),
       At(RU8("layerTimecode.state", offset + 1), n),
       At(RU8("layerTimecode.hours", offset + 2), n),
       At(RU8("layerTimecode.minutes", offset + 3), n),
       At(RU8("layerTimecode.seconds", offset + 4), n),
       At(RU8("layerTimecode.frames", offset + 5), n) >>

\* TCNetTimePacket.read
TimeRead ==
    ForEachLayer([n \in 0..7 |->
        << At(RU32("layerCurrentTime", 24 + n * 4), n),
           At(RU32("layerTotalTime", 56 + n * 4), n),
           At(RU8("layerBeatmarker", 88 + n), n),
           At(RU8("layerState", 96 + n), n) >>
        \o TimecodeRead(n, 106 + n * 6)])
    \o << RU8("generalSMPTEMode", 105) >>

\* TCNetTimePacket.write
TimeWrite(p) == << WThrowError >>

\* TCNetDataPacket.read
DataRead == << RU8("dataType", 24), RU8("layer", 25) >>

\* TCNetDataPacket.write
DataWrite(p) ==
    << WAssert(0 <= p.dataType /\ p.dataType <= 255),
       WAssert(0 <= p.layer /\ p.layer <= 255),
       WU8(p.dataType, 24),
       WU8(p.layer, 25) >>

\* TCNetDataPacketMetrics.read
MetricsRead ==
    << RU8("state", 27),
       RU8("syncMaster", 29),
       RU8("beatMarker", 31),
       RU32("trackLength", 32),
       RU32("currentPosition", 36),
       RU32("speed", 40),
       RU32("beatNumber", 57),
       RU32Div100("bpm", 112),
       RU16("pitchBend", 116),
       RU32("trackID", 118) >>

\* a Metrics class that inherits TCNetDataPacket.write instead of overriding
\* it: dataType MetricsData and layer 1 are written
MetricsWrite_inherited(p) == << WU8(2, 24), WU8(1, 25) >>

\* TCNetDataPacketMetrics.write
MetricsWrite(p) == << WThrowError >>

\* the layout of the protocol's table: a 2-byte key followed by the track ID
MetadataRead_shortKey ==
    << RAsciiTrim("trackArtist", 29, 285),
       RAsciiTrim("trackTitle", 285, 541),
       RAsciiStrip("trackKey", 541, 543),
       RU32("trackID", 543) >>

\* TCNetDataPacketMetadata.read
MetadataRead ==
    << RAsciiTrim("trackArtist", 29, 285),
       RAsciiTrim("trackTitle", 285, 541),
       RAsciiStrip("trackKey", 541, 566),
       RU32("trackID", 543) >>

\* TCNetDataPacketMetadata.write
MetadataWrite(p) == << WThrowError >>

\* TCNetDataPacketBeatGridData.read
BeatGridRead ==
    << RU32("dataSize", 26),
       RU32("totalPacket", 30),
       RU16("beatNumber", 42),
       RU8("beatType", 44),
       RU16("beatTypeTimestamp", 46) >>

\* TCNetDataPacketBeatGridData.write
BeatGridWrite(p) == << WThrowError >>

\* TCNetDataPacketMixerData.read
MixerRead ==
    << RU8("mixerId", 25),
       RU8("mixerType", 26),
       RAsciiTrim("mixerName", 27, 59),
       RU8("micEQHi", 59),
       RU8("micEQLow", 60),
       RU8("masterAudioLevel", 61),
       RU8("masterFaderLevel", 62),
       RU8("linkCueA", 67),
       RU8("linkCueB", 68),
       RU8("masterFilter", 69),
       RU8("masterCueA", 71),
       RU8("masterCueB", 72),
       RU8("masterIsolatorOnOff", 74),
       RU8("masterIsolatorHi", 75),
       RU8("masterIsolatorMid", 76),
       RU8("masterIsolatorLow", 77),
       RU8("filterHPF", 79),
       RU8("filterLPF", 80),
       RU8("filterRes", 81),
       RU8("sendFXEffect", 84),
       RU8("sendFXExt1", 85),
       RU8("sendFXExt2", 86),
       RU8("sendFXMasterMix", 87),
       RU8("sendFXSizeFeedback", 88),
       RU8("sendFXTime", 89),
       RU8("sendFXHPF", 90),
       RU8("sendFXLevel", 91),
       RU8("sendReturn3SourceSelect", 92),
       RU8("sendReturn3Type", 93),
       RU8("sendReturn3OnOff", 94),
       RU8("sendReturn3Level", 95),
       RU8("channelFaderCurve", 97),
       RU8("crossFaderCurve", 98),
       RU8("crossFader", 99),
       RU8("beatFxOnOff", 100),
       RU8("beatFxLevelDepth", 101),
       RU8("beatFxChannelSelect", 102),
       RU8("beatFxSelect", 103),
       RU8("beatFxFreqHi", 14),
       RU8("beatFxFreqMid", 105),
       RU8("beatFxFreqLow", 106),
       RU8("headphonesPreEq", 107),
       RU8("headphonesALevel", 108),
       RU8("headphonesAMix", 109),
       RU8("headphonesBLevel", 110),
       RU8("headphonesBMix", 111),
       RU8("boothLevel", 112),
       RU8("boothEqHi", 113),
       RU8("boothEqLow", 114),
       RU8("channel1SourceSelect", 125),
       RU8("channel1AudioLevel", 126),
       RU8("channel1FaderLevel", 127),
       RU8("channel1TrimLevel", 128),
       RU8("channel1CompLevel", 129),
       RU8("channel1EqHiLevel", 130),
       RU8("channel1EqHiMidLevel", 131),
       RU8("channel1EqLowMidLevel", 132),
       RU8("channel1EqLowLevel", 133),
       RU8("channel1FilterColor", 134),
       RU8("channel1Send", 135),
       RU8("channel1CueA", 136),
       RU8("channel1CueB", 137),
       RU8("channel1CrossfaderAssign", 138),
       RU8("channel2SourceSelect", 149),
       RU8("channel2AudioLevel", 150),
       RU8("channel2FaderLevel", 151),
       RU8("channel2TrimLevel", 152),
       RU8("channel2CompLevel", 153),
       RU8("channel2EqHiLevel", 154),
       RU8("channel2EqHiMidLevel", 155),
       RU8("channel2EqLowMidLevel", 156),
       RU8("channel2EqLowLevel", 157),
       RU8("channel2FilterColor", 158),
       RU8("channel2Send", 159),
       RU8("channel2CueA", 160),
       RU8("channel2CueB", 161),
       RU8("channel2CrossfaderAssign", 162),
       RU8("channel3SourceSelect", 173),
       RU8("channel3AudioLevel", 174),
       RU8("channel3FaderLevel", 175),
       RU8("channel3TrimLevel", 176),
       RU8("channel3CompLevel", 177),
       RU8("channel3EqHiLevel", 178),
       RU8("channel3EqHiMidLevel", 179),
       RU8("channel3EqLowMidLevel", 180),
       RU8("channel3EqLowLevel", 181),
       RU8("channel3FilterColor", 182),
       RU8("channel3Send", 183),
       RU8("channel3CueA", 184),
       RU8("channel3CueB", 185),
       RU8("channel3CrossfaderAssign", 186),
       RU8("channel4SourceSelect", 197),
       RU8("channel4AudioLevel", 198),
       RU8("channel4FaderLevel", 199),
       RU8("channel4TrimLevel", 200),
       RU8("channel4CompLevel", 201),
       RU8("channel4EqHiLevel", 202),
       RU8("channel4EqHiMidLevel", 203),
       RU8("channel4EqLowMidLevel", 204),
       RU8("channel4EqLowLevel", 205),
       RU8("channel4FilterColor", 206),
       RU8("channel4Send", 207),
       RU8("channel4CueA", 208),
       RU8("channel4CueB", 209),
       RU8("channel4CrossfaderAssign", 210),
       RU8("channel5SourceSelect", 221),
       RU8("channel5AudioLevel", 222),
       RU8("channel5FaderLevel", 223),
       RU8("channel5TrimLevel", 224),
       RU8("channel5CompLevel", 225),
       RU8("channel5EqHiLevel", 226),
       RU8("channel5EqHiMidLevel", 227),
       RU8("channel5EqLowMidLevel", 228),
       RU8("channel5EqLowLevel", 229),
       RU8("channel5FilterColor", 230),
       RU8("channel5Send", 231),
       RU8("channel5CueA", 232),
       RU8("channel5CueB", 233),
       RU8("channel5CrossfaderAssign", 234),
       RU8("channel6SourceSelect", 245),
       RU8("channel6AudioLevel", 246),
       RU8("channel6FaderLevel", 247),
       RU8("channel6TrimLevel", 248),
       RU8("channel6CompLevel", 249),
       RU8("channel6EqHiLevel", 250),
       RU8("channel6EqHiMidLevel", 251),
       RU8("channel6EqLowMidLevel", 252),
       RU8("channel6EqLowLevel", 253),
       RU8("channel6FilterColor", 254),
       RU8("channel6Send", 255),
       RU8("channel6CueA", 256),
       RU8("channel6CueB", 257),
       RU8("channel6CrossfaderAssign", 258) >>

\* TCNetDataPacketMixerData.write
MixerWrite(p) == << WThrowError >>

\* length() of each class; -1 is the Data packet's "no fixed length"
length(c) ==
    CASE c = "OptIn" -> 68
      [] c = "OptOut" -> 28
      [] c = "Request" -> 26
      [] c = "ApplicationData" -> 62
      [] c = "Status" -> 300
      [] c = "Time" -> 154
      [] c = "Data" -> -1
      [] c = "Metrics" -> 122
      [] c = "Metadata" -> 548
      [] c = "BeatGrid" -> 2442
      [] c = "Mixer" -> 270

ReadOf(c) ==
    CASE c = "Header" -> HeaderRead
      [] c = "OptIn" -> OptInRead
      [] c = "OptOut" -> OptOutRead
      [] c = "Request" -> RequestRead
      [] c = "ApplicationData" -> ApplicationDataRead
      [] c = "Status" -> StatusRead
      [] c = "Time" -> TimeRead
      [] c = "Data" -> DataRead
      [] c = "Metrics" -> MetricsRead
      [] c = "Metadata" -> MetadataRead
      [] c = "BeatGrid" -> BeatGridRead
      [] c = "Mixer" -> MixerRead

WriteOf(c, p) ==
    CASE c = "Header" -> HeaderWrite(p)
      [] c = "OptIn" -> OptInWrite(p)
      [] c = "OptOut" -> OptOutWrite(p)
      [] c = "Request" -> RequestWrite(p)
      [] c = "ApplicationData" -> ApplicationDataWrite(p)
      [] c = "Status" -> StatusWrite(p)
      [] c = "Time" -> TimeWrite(p)
      [] c = "Data" -> DataWrite(p)
      [] c = "Metrics" -> MetricsWrite(p)
      [] c = "Metadata" -> MetadataWrite(p)
      [] c = "BeatGrid" -> BeatGridWrite(p)
      [] c = "Mixer" -> MixerWrite(p)

\* packet.write() into packet.buffer
Encode ==
    /\ pc = "new"
    /\ LET r == write(WriteOf(codec, value), buffer)
       IN  /\ buffer' = r.buf
           /\ outcome' = [threw |-> r.threw, asserted |-> r.asserted]
           /\ pc' = IF r.threw THEN "failed" ELSE "written"
    /\ UNCHANGED <<codec, value, decoded, trackerVars, callVars, clientVars, dispatchVars>>

\* a new object of the class on the received buffer, then its read()
Decode ==
    /\ pc = "written"
    /\ LET r == read(ReadOf(codec), buffer)
       IN  /\ decoded' = r.obj
           /\ outcome' = [threw |-> r.threw, asserted |-> r.asserted]
           /\ pc' = IF r.threw THEN "failed" ELSE "read"
    /\ UNCHANGED <<codec, value, buffer, trackerVars, callVars, clientVars, dispatchVars>>

-----------------------------------------------------------------------------
(* The dispatch tables                                                     *)

\* enum TCNetMessageType
TCNetMessageType ==
    [ OptIn |-> 2, OptOut |-> 3, Status |-> 5, TimeSync |-> 10, Error |-> 13,
      Request |-> 20, ApplicationData |-> 30, Control |-> 101, Text |-> 128,
      Keyboard |-> 132, Data |-> 200, File |-> 204, Time |-> 254 ]

\* enum TCNetDataPacketType
TCNetDataPacketType ==
    [ MetricsData |-> 2, MetaData |-> 4, BeatGridData |-> 8, CUEData |-> 12,
      SmallWaveFormData |-> 16, BigWaveFormData |-> 32, MixerData |-> 150 ]

\* the numbers an enum defines
EnumValues(enum) == { enum[name] : name \in DOMAIN enum }

\* the table as its comments describe it: ApplicationData "not yet implemented"
TCNetPackets_appDataNull ==
    TCNetMessageType.OptIn :> "OptIn"
    @@ TCNetMessageType.OptOut :> "OptOut"
    @@ TCNetMessageType.Status :> "Status"
    @@ TCNetMessageType.TimeSync :> "null"
    @@ TCNetMessageType.Error :> "null"
    @@ TCNetMessageType.Request :> "Request"
    @@ TCNetMessageType.ApplicationData :> "null"
    @@ TCNetMessageType.Control :> "null"
    @@ TCNetMessageType.Text :> "null"
    @@ TCNetMessageType.Keyboard :> "null"
    @@ TCNetMessageType.Data :> "Data"
    @@ TCNetMessageType.File :> "null"
    @@ TCNetMessageType.Time :> "Time"

\* const TCNetPackets: the class of each message type, or null
TCNetPackets ==
    TCNetMessageType.OptIn :> "OptIn"
    @@ TCNetMessageType.OptOut :> "OptOut"
    @@ TCNetMessageType.Status :> "Status"
    @@ TCNetMessageType.TimeSync :> "null"
    @@ TCNetMessageType.Error :> "null"
    @@ TCNetMessageType.Request :> "Request"
    @@ TCNetMessageType.ApplicationData :> "ApplicationData"
    @@ TCNetMessageType.Control :> "null"
    @@ TCNetMessageType.Text :> "null"
    @@ TCNetMessageType.Keyboard :> "null"
    @@ TCNetMessageType.Data :> "Data"
    @@ TCNetMessageType.File :> "null"
    @@ TCNetMessageType.Time :> "Time"

\* const TCNetDataPackets: the class of each data packet type, or null
TCNetDataPackets ==
    TCNetDataPacketType.MetricsData :> "Metrics"
    @@ TCNetDataPacketType.MetaData :> "Metadata"
    @@ TCNetDataPacketType.BeatGridData :> "BeatGrid"
    @@ TCNetDataPacketType.CUEData :> "null"
    @@ TCNetDataPacketType.SmallWaveFormData :> "null"
    @@ TCNetDataPacketType.BigWaveFormData :> "null"
    @@ TCNetDataPacketType.MixerData :> "Mixer"

TableOf(name) ==
    CASE name = "TCNetPackets" -> TCNetPackets
      [] name = "TCNetDataPackets" -> TCNetDataPackets

\* table[key]: reading a property an object does not have yields undefined
Lookup(table, key) ==
    IF key \in DOMAIN table THEN table[key] ELSE "undefined"

\* TCNetPackets[messageType] or TCNetDataPackets[dataType]
Resolve ==
    /\ resolved = "pending"
    /\ tag.table # "none"
    /\ resolved' = Lookup(TableOf(tag.table), tag.key)
    /\ UNCHANGED <<tag, trackerVars, callVars, clientVars, codecVars>>

\* the tags a byte of a packet can carry, and 999
Tags == 0..255 \cup {999}

-----------------------------------------------------------------------------
(* Inputs of the codecs                                                    *)

NoOutcome == [threw |-> FALSE, asserted |-> FALSE]

\* a buffer of n bytes, every byte b
Filled(n, b) == [k \in 1..n |-> b]

\* Buffer.alloc zero-fills; a reused or allocUnsafe buffer holds other bytes
FillBytes == {0, 170}

\* "AB", and a name that fills a 16-byte field: "PIONEER DJ CORP."
ShortName == <<65, 66>>

FullName16 == <<80, 73, 79, 78, 69, 69, 82, 32, 68, 74, 32, 67, 79, 82, 80, 46>>

OptInValues ==
    [ nodeCount : {258}, nodeListenerPort : {65023}, uptime : {0, 4660},
      vendorName : {<< >>, ShortName, FullName16}, appName : {ShortName},
      majorVersion : {3, 64, 200}, minorVersion : {0, 65}, bugVersion : {1, 66} ]

OptOutValues == [ nodeCount : {1, 258}, nodeListenerPort : {0, 65023} ]

RequestValues == [ dataType : {2, 150}, layer : {0, 1, 8} ]

ValuesOf(c) ==
    CASE c = "OptIn" -> OptInValues
      [] c = "OptOut" -> OptOutValues
      [] c = "Request" -> RequestValues
      [] c = "ApplicationData" -> RequestValues

EncodableClasses == {"OptIn", "OptOut", "Request", "ApplicationData"}

\* the bytes of a header as a sender lays them out
HeaderBytes(h) ==
    << h.nodeId % 256, h.nodeId \div 256, h.version, h.minorVersion >>
    \o h.magic \o << h.messageType >> \o padEnd(h.nodeName, 8)
    \o << h.seq, h.nodeType, h.nodeOptions % 256, h.nodeOptions \div 256 >>
    \o [k \in 1..4 |-> (h.timestamp \div (256 ^ (k - 1))) % 256]

\* names one character longer than an 8-byte and a 16-byte field:
\* "NODE00001", "PIONEER DJ CORP.X"
LongName9 == <<78, 79, 68, 69, 48, 48, 48, 48, 49>>

LongName17 == FullName16 \o <<88>>

FullName8 == <<78, 79, 68, 69, 48, 48, 48, 49>>

\* headers and OptIn packets to encode, with names shorter than, as long as
\* and longer than their fields
NamedHeaders ==
    [ nodeId : {0, 258}, minorVersion : {5}, messageType : {2, 5},
      nodeName : {<< >>, ShortName, FullName8, LongName9, FullName16},
      seq : {7}, nodeType : {2, 4}, nodeOptions : {7}, timestamp : {16909060} ]

NamedOptIns ==
    [ nodeCount : {258}, nodeListenerPort : {65023}, uptime : {0, 4660},
      vendorName : {ShortName, FullName16, LongName17},
      appName : {ShortName, FullName16, LongName17},
      majorVersion : {3}, minorVersion : {0}, bugVersion : {1} ]

\* the buffer a header is written into: the packet's buffer, from byte 0
HeaderBufferLength == 24

\* the packet classes with a fixed length()
Variants ==
    {"OptIn", "OptOut", "Status", "Request", "ApplicationData", "Time",
     "Metrics", "Metadata", "BeatGrid", "Mixer"}

\* the classes whose write() is "not supported"
DecodeOnlyClasses == {"Status", "Time", "Metrics", "Metadata", "BeatGrid", "Mixer"}

\* the statements of read() that take text, and the one that takes the bpm
AsciiSteps(c) ==
    { n \in 1..Len(ReadOf(c)) : ReadOf(c)[n].k \in {"ascii", "asciiStrip", "asciiTrim"} }

BpmSteps(c) == { n \in 1..Len(ReadOf(c)) : ReadOf(c)[n].k = "u32div100" }

\* one past the last byte any statement of read() takes
ReadEnd(c) ==
    LET ends == { ReadOf(c)[n].to : n \in 1..Len(ReadOf(c)) }
    IN  CHOOSE e \in ends : \A x \in ends : x <= e

\* texts a sender puts into a text field, NUL-padded to the field's width:
\* "AB", "A\0B", "AB  ", "A\0\nB", and 256 letters without a NUL
TextAfterNul == <<65, NUL, 66>>

TextTrailingSpaces == <<65, 66, 32, 32>>

TextNulNewline == <<65, NUL, 10, 66>>

TextNoNul == [k \in 1..256 |-> 65 + (k % 26)]

WireTexts == {ShortName, TextAfterNul, TextTrailingSpaces, TextNulNewline, TextNoNul}

\* bytes of the parts of a packet no text and no bpm is put into
WireFill == {0, 85}

\* bpm in hundredths as the sender encodes it: 0, 120.00, 128.50, 174.25,
\* and the largest value the model's integers hold
WireBpm == {0, 12000, 12850, 17425, 2147483647}

\* buffer lengths: the declared length(), one byte less, half of it, a
\* 10-byte fragment, and everything read() reaches
WireLengths(c) ==
    {10, length(c) \div 2, length(c) - 1, length(c), ReadEnd(c)} \ {0}

WireValues(c) ==
    [ len : WireLengths(c), fill : WireFill,
      text : IF AsciiSteps(c) = {} THEN {<< >>} ELSE WireTexts,
      bpm : IF BpmSteps(c) = {} THEN {0} ELSE WireBpm ]

\* the bytes on the wire: v.text in every text field, v.bpm little-endian in
\* the bpm field, v.fill elsewhere, cut to v.len bytes
WireImage(c, v) ==
    LET prog == ReadOf(c)
        texts == AsciiSteps(c)
        bpms == BpmSteps(c)
        byte(k) ==
            IF \E n \in texts : k > prog[n].at /\ k <= prog[n].to
            THEN LET n == CHOOSE n \in texts : k > prog[n].at /\ k <= prog[n].to
                 IN  padEnd(v.text, prog[n].to - prog[n].at)[k - prog[n].at]
            ELSE IF \E n \in bpms : k > prog[n].at /\ k <= prog[n].to
            THEN LET n == CHOOSE n \in bpms : k > prog[n].at /\ k <= prog[n].to
                 IN  (v.bpm \div (256 ^ (k - prog[n].at - 1))) % 256
            ELSE v.fill
    IN  [k \in 1..v.len |-> byte(k)]

\* headers on the wire: right and wrong versions and magics
WireHeaders ==
    [ nodeId : {0, 258}, version : {MAJOR_VERSION, 2, 255}, minorVersion : {5},
      magic : {MAGIC_HEADER, <<84, 67, 88>>, <<0, 67, 78>>},
      messageType : {2, 5}, nodeName : {ShortName, <<78, 79, 68, 69, 48, 48, 48, 49>>},
      seq : {7}, nodeType : {2}, nodeOptions : {7}, timestamp : {16909060} ]

-----------------------------------------------------------------------------
(* Specifications                                                          *)

TrackerInit ==
    /\ _trackID = FreshField
    /\ _status = FreshField
    /\ pre = [trackID |-> FreshField, status |-> FreshField]
    /\ op = "none"
    /\ source = <<>>
    /\ ret = NoCall
    /\ prev = <<"none", <<>> >>
    /\ ncalls = 0
    /\ packet = NoPacket
    /\ prevPacket = NoPacket
    /\ emitted = << >>
    /\ nrecv = 0

CodecIdle ==
    /\ codec = "none"
    /\ value = NoFields
    /\ buffer = << >>
    /\ decoded = NoFields
    /\ outcome = NoOutcome
    /\ pc = "idle"

DispatchIdle ==
    /\ tag = [table |-> "none", key |-> 0]
    /\ resolved = "pending"

Init == TrackerInit /\ CodecIdle /\ DispatchIdle

\* the tracker called within its contract: 8-element arrays
CallTrackIDs == \E a \in TrackArrays : updateTrackIDs(a)

CallStatus == \E a \in StatusArrays : updateStatus(a)

Next == CallTrackIDs \/ CallStatus

Spec == Init /\ [][Next]_vars

\* the tracker called with arrays of any length
CallTrackIDsAnyLen == \E a \in AnyLenArrays(TrackArrays) : updateTrackIDs(a)

CallStatusAnyLen == \E a \in AnyLenArrays(StatusArrays) : updateStatus(a)

NextAnyLen == CallTrackIDsAnyLen \/ CallStatusAnyLen

SpecAnyLen == Init /\ [][NextAnyLen]_vars

\* the client fed by the "broadcast" event of the underlying TCNetClient
ReceiveStatus == \E p \in StatusPackets : receiveBroadcast(p)

ReceiveOther == \E p \in OtherPackets : receiveBroadcast(p)

NextClient == ReceiveStatus \/ ReceiveOther

SpecClient == Init /\ [][NextClient]_vars

\* a received 24-byte header decoded by TCNetManagementHeader.read
HeaderInit ==
    /\ TrackerInit
    /\ DispatchIdle
    /\ codec = "Header"
    /\ value \in WireHeaders
    /\ buffer = HeaderBytes(value)
    /\ decoded = NoFields
    /\ outcome = NoOutcome
    /\ pc = "written"

SpecHeader == HeaderInit /\ [][Decode]_vars

\* a packet written into a buffer of length() bytes and read back
RoundTripInit ==
    /\ TrackerInit
    /\ DispatchIdle
    /\ codec \in EncodableClasses
    /\ value \in ValuesOf(codec)
    /\ buffer \in { Filled(length(codec), b) : b \in FillBytes }
    /\ decoded = NoFields
    /\ outcome = NoOutcome
    /\ pc = "new"

NextRoundTrip == Encode \/ Decode

SpecRoundTrip == RoundTripInit /\ [][NextRoundTrip]_vars

\* a header or an OptIn packet with names of any length, encoded
FieldWidthInit ==
    /\ TrackerInit
    /\ DispatchIdle
    /\ \/ /\ codec = "Header"
          /\ value \in NamedHeaders
          /\ buffer \in { Filled(HeaderBufferLength, b) : b \in FillBytes }
       \/ /\ codec = "OptIn"
          /\ value \in NamedOptIns
          /\ buffer \in { Filled(length(codec), b) : b \in FillBytes }
    /\ decoded = NoFields
    /\ outcome = NoOutcome
    /\ pc = "new"

SpecFieldWidth == FieldWidthInit /\ [][Encode]_vars

\* a tag looked up in one of the two dispatch tables
DispatchInit ==
    /\ TrackerInit
    /\ CodecIdle
    /\ tag \in [table : {"TCNetPackets", "TCNetDataPackets"}, key : Tags]
    /\ resolved = "pending"

SpecDispatch == DispatchInit /\ [][Resolve]_vars

\* a received buffer handed to the read() of a packet class
DecodeInit ==
    /\ TrackerInit
    /\ DispatchIdle
    /\ codec \in Variants
    /\ value \in WireValues(codec)
    /\ buffer = WireImage(codec, value)
    /\ decoded = NoFields
    /\ outcome = NoOutcome
    /\ pc = "written"

SpecDecode == DecodeInit /\ [][Decode]_vars

\* write() called on a packet of a decode-only class that holds a buffer
DecodeOnlyInit ==
    /\ TrackerInit
    /\ DispatchIdle
    /\ codec \in DecodeOnlyClasses
    /\ value \in WireValues(codec)
    /\ buffer = WireImage(codec, value)
    /\ decoded = NoFields
    /\ outcome = NoOutcome
    /\ pc = "new"

SpecDecodeOnly == DecodeOnlyInit /\ [][Encode]_vars

-----------------------------------------------------------------------------
(* Properties of the layer state tracker                                   *)

IsAscending(s) == \A k \in 1..(Len(s) - 1) : s[k] < s[k + 1]

Elements(s) == { s[k] : k \in 1..Len(s) }

\* the layers whose stored value is not the new value
DiffLayers(old, new) == { l \in 1..NumLayers : old[l] # new[l] }

FieldOf(o, st) == IF o = "updateTrackIDs" THEN st.trackID ELSE st.status

OtherFieldOf(o, st) == IF o = "updateTrackIDs" THEN st.status ELSE st.trackID

Called == op # "none"

AllLayers == [l \in 1..NumLayers |-> l]

\* C1: an update with an 8-element array returns, in ascending order and
\* without repetition, exactly the 1-based layers whose stored value differed
\* from the new value, and afterwards every stored slot equals the new value.
C1_UpdateReportsExactDiff ==
    (Called /\ Len(source) = NumLayers) =>
        /\ IsAscending(ret.changed)
        /\ Elements(ret.changed) = DiffLayers(FieldOf(op, pre), source)
        /\ \A l \in 1..NumLayers : FieldOf(op, Stored)[l] = source[l]
        /\ ~ret.threw

\* a call on a non-fresh tracker that reports some layers and not others
C1_Witness ==
    /\ ncalls >= 2
    /\ Len(source) = NumLayers
    /\ FieldOf(op, pre) # FreshField
    /\ ret.changed # << >>
    /\ Len(ret.changed) < NumLayers
    /\ \E l \in 1..NumLayers : FieldOf(op, pre)[l] = source[l]

\* C2: the same operation called twice in a row with the same 8-element
\* array returns no changed layer the second time and leaves both stored
\* arrays as they were.
C2_SecondCallIdempotent ==
    (ncalls >= 2 /\ prev = <<op, source>> /\ Len(source) = NumLayers) =>
        /\ ret.changed = << >>
        /\ Stored = pre

\* the second of two identical calls, made on a tracker another call had
\* already changed
C2_Witness ==
    /\ ncalls = MaxCalls
    /\ prev = <<op, source>>
    /\ Len(source) = NumLayers
    /\ source # FreshField
    /\ OtherFieldOf(op, Stored) # FreshField

\* C3: a call with an array of a length other than 8 fails (throws) and
\* returns no changed-layer list.
C3_WrongLengthFails ==
    (Called /\ Len(source) # NumLayers) =>
        /\ ret.threw
        /\ ret.changed = << >>
        /\ Stored = pre

\* C4: both stored arrays always have exactly 8 slots.
C4_EightSlots == Len(_trackID) = NumLayers /\ Len(_status) = NumLayers

\* C5: a fresh tracker holds -1 for every layer's track ID, so the first
\* updateTrackIDs(v) returns exactly the layers with v[l] # -1; with
\* [5,5,-1,-1,-1,-1,-1,-1] it returns [1,2] and trackID(Layer1) is 5, and the
\* same call repeated returns [].
C5_FreshTrackIDs ==
    /\ (ncalls = 0 /\ nrecv = 0) => \A l \in 1..NumLayers : trackID(l) = -1
    /\ (ncalls = 1 /\ op = "updateTrackIDs" /\ Len(source) = NumLayers) =>
            /\ IsAscending(ret.changed)
            /\ Elements(ret.changed) = { l \in 1..NumLayers : source[l] # -1 }
    /\ (ncalls = 1 /\ op = "updateTrackIDs" /\ source = ScenarioTrackIDs) =>
            /\ ret.changed = <<1, 2>>
            /\ trackID(1) = 5
    /\ (ncalls = 2 /\ op = "updateTrackIDs" /\ source = ScenarioTrackIDs
            /\ prev = <<op, source>>) =>
            ret.changed = << >>

\* the scenario's second call
C5_Witness ==
    /\ ncalls = 2
    /\ op = "updateTrackIDs"
    /\ source = ScenarioTrackIDs
    /\ prev = <<op, source>>
    /\ trackID(1) = 5
    /\ trackID(3) = -1

\* C6 as stated: on a fresh tracker updateStatus([3,3,0,0,0,0,0,0]) returns
\* [1,2], the layers whose status is not IDLE.
C6_FreshStatusReportsNonIdle ==
    (ncalls = 1 /\ op = "updateStatus" /\ source = ScenarioStatus) =>
        ret.changed = <<1, 2>>

\* C6 amended: on a fresh tracker updateStatus([3,3,0,0,0,0,0,0]) returns
\* all eight layers [1..8], the IDLE ones included, because the fresh status
\* slots hold -1 and not IDLE; each slot then holds the new status.
C6_FreshStatusReportsAll ==
    (ncalls = 1 /\ op = "updateStatus" /\ source = ScenarioStatus) =>
        /\ pre.status = FreshField
        /\ ret.changed = AllLayers
        /\ status(1) = 3
        /\ status(3) = 0

C6_Witness ==
    /\ ncalls = 1
    /\ op = "updateStatus"
    /\ source = ScenarioStatus
    /\ Len(ret.changed) = NumLayers

-----------------------------------------------------------------------------
(* Properties of the client's broadcast handler                            *)

\* how many times the event (name, layer) was emitted
Count(name, layer) ==
    Cardinality({ k \in 1..Len(emitted) :
                    emitted[k].name = name /\ emitted[k].layer = layer })

BoolToNat(b) == IF b THEN 1 ELSE 0

\* C7: for a Status broadcast the handler emits one 'changedtrack' per layer
\* whose track ID changed, one 'changedstatus' per layer whose status
\* changed, one 'statuschange' exactly when either set is non-empty, and
\* nothing else; a Status broadcast equal to the previous one emits nothing.
C7_OneEventPerChange ==
    /\ IsStatusPacket(packet) =>
          LET dT == DiffLayers(pre.trackID, packet.trackID)
              dS == DiffLayers(pre.status, packet.layerStatus)
              any == (dT \cup dS) # {}
          IN  /\ \A l \in 1..NumLayers :
                    /\ Count("changedtrack", l) = BoolToNat(l \in dT)
                    /\ Count("changedstatus", l) = BoolToNat(l \in dS)
              /\ Count("statuschange", 0) = BoolToNat(any)
              /\ Len(emitted) = Cardinality(dT) + Cardinality(dS) + BoolToNat(any)
    /\ (IsStatusPacket(packet) /\ prevPacket = packet) => emitted = << >>

\* a second Status broadcast that changes track IDs of some layers only and
\* no status
C7_Witness ==
    /\ nrecv = 2
    /\ IsStatusPacket(packet)
    /\ IsStatusPacket(prevPacket)
    /\ Count("statuschange", 0) = 1
    /\ Count("changedtrack", 1) = 1
    /\ Count("changedtrack", 2) = 0
    /\ \A l \in 1..NumLayers : Count("changedstatus", l) = 0

\* C8: a broadcast that is not a Status packet leaves both stored arrays
\* unchanged and emits no notification.
C8_OnlyStatusMutates ==
    (nrecv > 0 /\ ~IsStatusPacket(packet)) =>
        /\ Stored = pre
        /\ emitted = << >>

\* a Time packet received after a Status packet had filled the tracker
C8_Witness ==
    /\ nrecv = 2
    /\ packet.kind = "Time"
    /\ IsStatusPacket(prevPacket)
    /\ _trackID = prevPacket.trackID
    /\ _status = prevPacket.layerStatus

-----------------------------------------------------------------------------
(* Properties of the codecs                                                *)

HeaderDecodeDone == codec = "Header" /\ pc \in {"read", "failed"}

BadHeader == value.magic # MAGIC_HEADER \/ value.version # MAJOR_VERSION

\* C9: decoding a header whose magic is not "TCN" or whose major version is
\* not 3 fails, and no field of the header is populated from the buffer.
C9_BadHeaderRejected ==
    (HeaderDecodeDone /\ BadHeader) =>
        /\ outcome.threw
        /\ DOMAIN decoded = {}

\* C10: a valid OptIn, OptOut, Request or ApplicationData value written into
\* a buffer of length() bytes and read back is equal in all fields.
C10_RoundTrip ==
    (codec \in EncodableClasses /\ pc = "read") => decoded = value

\* the fixed-width ASCII fields write() encodes, with their widths
AsciiFieldsOf(c) ==
    IF c = "Header" THEN { <<"nodeName", 8>> }
    ELSE { <<"vendorName", 16>>, <<"appName", 16>> }

EncodeDone == pc \in {"written", "failed"}

\* C11: encoding a header or an OptIn packet fails when the text of a
\* fixed-width ASCII field (nodeName 8, vendorName and appName 16 bytes) is
\* longer than the field, and succeeds when every text is at most as long as
\* its field, the exact width included.
C11_TooLongFails ==
    (codec \in {"Header", "OptIn"} /\ EncodeDone) =>
        LET tooLong == \E fw \in AsciiFieldsOf(codec) : Len(value[fw[1]]) > fw[2]
        IN  /\ tooLong => (pc = "failed" /\ outcome.threw)
            /\ ~tooLong => pc = "written"

\* the order the three kinds of event are emitted in
Rank(name) ==
    CASE name = "changedtrack" -> 1
      [] name = "changedstatus" -> 2
      [] name = "statuschange" -> 3

\* C19: when a Status broadcast is processed, both stored arrays are updated
\* from the packet before the first event is emitted: every listener of every
\* event sees, for each of the 8 layers, the packet's track ID and status;
\* the changedtrack events come first, then the changedstatus events, then
\* the one statuschange.
C19_StateUpdatedBeforeEvents ==
    IsStatusPacket(packet) =>
        /\ \A k \in 1..Len(emitted) : \A l \in 1..NumLayers :
                /\ emitted[k].seen.trackID[l] = packet.trackID[l]
                /\ emitted[k].seen.status[l] = packet.layerStatus[l]
        /\ \A l \in 1..NumLayers :
                trackID(l) = packet.trackID[l] /\ status(l) = packet.layerStatus[l]
        /\ \A i, j \in 1..Len(emitted) :
                i < j => Rank(emitted[i].name) <= Rank(emitted[j].name)
        /\ Cardinality({ k \in 1..Len(emitted) : emitted[k].name = "statuschange" }) <= 1

C19_Witness ==
    /\ IsStatusPacket(packet)
    /\ IsStatusPacket(prevPacket)
    /\ Len(emitted) >= 3
    /\ emitted[1].name = "changedtrack"
    /\ emitted[Len(emitted) - 1].name = "changedstatus"
    /\ emitted[Len(emitted)].name = "statuschange"
    /\ emitted[1].seen.status # pre.status

-----------------------------------------------------------------------------
(* Properties of the packet decoders                                       *)

DecodeDone == codec \in Variants /\ pc \in {"read", "failed"}

\* C12: for every packet class with a fixed length(), read() of a buffer
\* shorter than length() fails and yields no decoded field; in particular a
\* 10-byte buffer given to the Status decoder fails.
C12_ShortBufferRejected ==
    (DecodeDone /\ Len(buffer) < length(codec)) =>
        (pc = "failed" /\ outcome.threw /\ decoded = NoFields)

\* C13: write() of Status, Time, Metrics, Metadata, BeatGrid and Mixer always
\* fails and leaves every byte of the buffer as it was.
C13_DecodeOnlyWriteFails ==
    (codec \in DecodeOnlyClasses /\ pc # "new") =>
        /\ pc = "failed"
        /\ outcome.threw
        /\ buffer = WireImage(codec, value)

C13_Witness ==
    /\ codec = "Metrics"
    /\ pc = "failed"
    /\ Len(buffer) = length("Metrics")
    /\ value.bpm = 12000

\* the bytes before the first NUL, all of them when there is none
UpToFirstNul(bytes) ==
    LET nuls == { k \in 1..Len(bytes) : bytes[k] = NUL }
    IN  IF nuls = {} THEN bytes
        ELSE SubSeq(bytes, 1, (CHOOSE k \in nuls : \A j \in nuls : k <= j) - 1)

\* the decoded value a statement of read() assigned
FieldValue(obj, step) ==
    IF "i" \in DOMAIN step THEN obj[step.f][step.i] ELSE obj[step.f]

\* C16: every decoded fixed-width ASCII field is the bytes of its region up
\* to, not including, the first NUL: nothing after the first NUL appears in
\* it, and a region without a NUL decodes to all of its bytes, unmodified.
C16_AsciiUpToFirstNul ==
    (DecodeDone /\ pc = "read") =>
        \A n \in AsciiSteps(codec) :
            LET step == ReadOf(codec)[n]
            IN  FieldValue(decoded, step)
                    = UpToFirstNul(slice(buffer, step.at, step.to))

\* C17: the bpm a Metrics packet decodes to is the unsigned 32-bit
\* little-endian integer at offsets 112..115 divided by 100; the wire value
\* 12000 decodes to 120.00.
C17_BpmIsHundredths ==
    (DecodeDone /\ codec = "Metrics" /\ pc = "read") =>
        /\ decoded.bpm.whole = value.bpm \div 100
        /\ decoded.bpm.hundredths = value.bpm % 100
        /\ value.bpm = 12000 => decoded.bpm = [whole |-> 120, hundredths |-> 0]
        /\ \A k \in 1..4 : buffer[112 + k] = (value.bpm \div (256 ^ (k - 1))) % 256

C17_Witness ==
    /\ codec = "Metrics"
    /\ pc = "read"
    /\ value.bpm = 12000
    /\ decoded.bpm.whole = 120

\* the statement of read() that assigns field f
StepOf(c, f) ==
    ReadOf(c)[CHOOSE n \in 1..Len(ReadOf(c)) : ReadOf(c)[n].f = f]

\* C18: Metadata's trackID is the little-endian u32 at offset 543, inside the
\* 25-byte trackKey region [541, 566), so the same wire bytes go into both
\* fields; trackArtist [29, 285) and trackTitle [285, 541) are adjacent,
\* non-overlapping 256-byte regions before the trackKey region.
C18_TrackIDInsideKeyRegion ==
    (DecodeDone /\ codec = "Metadata" /\ pc = "read") =>
        LET artist == StepOf("Metadata", "trackArtist")
            title == StepOf("Metadata", "trackTitle")
            key == StepOf("Metadata", "trackKey")
            id == StepOf("Metadata", "trackID")
            sent == padEnd(value.text, 25)
            got == IF Len(buffer) - 541 < 25 THEN Len(buffer) - 541 ELSE 25
        IN  /\ <<artist.at, artist.to>> = <<29, 285>>
            /\ <<title.at, title.to>> = <<285, 541>>
            /\ <<key.at, key.to>> = <<541, 566>>
            /\ <<id.at, id.to>> = <<543, 547>>
            /\ key.at <= id.at /\ id.to <= key.to
            /\ decoded.trackID
                  = sent[3] + 256 * sent[4] + 65536 * sent[5] + 16777216 * sent[6]
            /\ decoded.trackKey
                  = SelectSeq(SubSeq(sent, 1, got), LAMBDA b : b # NUL)
            /\ \A k \in 3..6 : sent[k] = buffer[541 + k]

C18_Witness ==
    /\ codec = "Metadata"
    /\ pc = "read"
    /\ value.text = TextNoNul
    /\ Len(decoded.trackKey) = 25
    /\ decoded.trackID = 68 + 256 * 69 + 65536 * 70 + 16777216 * 71

\* C20: for every packet class with a fixed length(), every byte range its
\* read() takes a field from lies within [0, length()): a buffer of exactly
\* length() bytes holds every field's region in full.
C20_FieldsWithinLength ==
    DecodeDone =>
        \A n \in 1..Len(ReadOf(codec)) :
            LET step == ReadOf(codec)[n]
            IN  /\ 0 <= step.at
                /\ step.to <= length(codec)
                /\ Len(buffer) = length(codec) =>
                        Len(slice(buffer, step.at, step.to)) = step.to - step.at

\* C21: no read() of a packet class takes a field from inside the 24-byte
\* management header: every statement of every class, each of the Mixer's
\* one-byte fields included, reads at an offset of 24 or more.
C21_NoPayloadFieldInHeader ==
    DecodeDone =>
        \A n \in 1..Len(ReadOf(codec)) :
            ReadOf(codec)[n].at >= HeaderBufferLength

-----------------------------------------------------------------------------
(* Properties of the dispatch tables                                       *)

Resolved == resolved # "pending"

MessageTag(t) == tag.table = "TCNetPackets" /\ tag.key = t

DataTag(t) == tag.table = "TCNetDataPackets" /\ tag.key = t

C15_UnknownTagUnsupported ==
    (Resolved /\ tag.key \notin DOMAIN TableOf(tag.table)) =>
        resolved = Lookup(TCNetPackets, TCNetMessageType.TimeSync)

====
